---- MODULE Spec2Model ----
(***************************************************************************)
(* A model of qtorient (src/qtorient/qtorient.py, src/qtorient/settings.py) *)
(* the daemon that switches a convertible laptop between laptop and tablet *)
(* mode and rotates the display.                                           *)
(*                                                                         *)
(* Python values are modelled as follows.  None / True / False held in an  *)
(* attribute are the strings "None" / "True" / "False".  Sensor readings   *)
(* are floats in the program; the model draws them from small sets of     *)
(* integers (the code only multiplies and compares them).  An attribute    *)
(* that may be absent from an object is a sequence: << >> when absent,    *)
(* << v >> when it holds v.  Text is a sequence of one-character strings.  *)
(* An exception is the name of its class, "none" when nothing was raised.  *)
(*                                                                         *)
(* The model covers the runs in which _get_sensor_base_dirs found both     *)
(* sensors; otherwise the process exits before its first decision.         *)
(*                                                                         *)
(* A handler that raises stops where it raised and keeps the assignments   *)
(* it had made.  Whether the process then survives depends on the          *)
(* exception hook of the PyQt build in use; the model lets the handlers    *)
(* run on, which includes every run of a process that ends there.  After   *)
(* self.quit() the event loop delivers no further event or signal; only a  *)
(* repeated shutdown request can still run stop().                         *)
(***************************************************************************)
EXTENDS Integers, Sequences, FiniteSets

VARIABLES
    _laptop,        \* self._laptop: "None", "True" or "False"
    orientation,    \* self.orientation
    _accel,         \* self._accel: << x, y >>
    _incl,          \* self._incl: << x, y, z >>
    _read_fails,    \* self._read_fails
    keyboard_pid,   \* self.keyboard_pid: "None" or "pid"
    keyboards,      \* self.keyboards (after verify_input_devices)
    pointers,       \* self.pointers
    touchscreens,   \* self.touchscreens
    KEYBOARD_CMD,   \* the configured on-screen keyboard command
    timer_interval, \* the period, in ms, of the timer startTimer started
    lid,            \* the content of LID_SENSOR_PATH (environment)
    quit,           \* self.quit() was called: the event loop is leaving
    last,           \* the handler that ran last, with its argument
    calls,          \* the external calls the last handler issued, in order
    raised,         \* the exception the last handler propagated, or "none"
    invoked,        \* the methods the last handler called, in order
    classified,     \* the last value get_orientation returned on its own
    read_ret,       \* what the last read_sensor call on its own returned
    streak,         \* consecutive file-not-found faults seen by an observer
    _settings,      \* self._settings: "None" or "open"
    poll_interval,  \* parent.poll_interval: << >> when absent
    pollEdit        \* ui.pollEdit.text()

appVars == << _laptop, orientation, _accel, _incl, _read_fails, keyboard_pid >>
cfgVars == << keyboards, pointers, touchscreens, KEYBOARD_CMD, timer_interval >>
logVars == << last, calls, raised >>
fnVars == << classified, read_ret, streak >>
uiVars == << _settings, poll_interval, pollEdit >>
vars == << appVars, cfgVars, lid, quit, logVars, invoked, fnVars, uiVars >>

----------------------------------------------------------------------------
(* Configuration: the constants at the top of qtorient.py.                 *)

OUTPUT == "eDP1"
KEYBOARDS == << "AT Translated Set 2 keyboard" >>
POINTERS == << "TPPS/2 IBM TrackPoint", "Synaptics TM2911-002" >>
TOUCHSCREENS == << "ELAN Touchscreen", "Wacom ISDv4 EC Pen stylus" >>
POLL_INTERVAL == 1
GRAVITY_THRESHOLD == 2

ORIENTATIONS ==
    [ normal   |-> [ pen |-> "none", transform_matrix |-> << 1, 0, 0, 0, 1, 0, 0, 0, 1 >> ],
      inverted |-> [ pen |-> "half", transform_matrix |-> << -1, 0, 1, 0, -1, 1, 0, 0, 1 >> ],
      left     |-> [ pen |-> "ccw",  transform_matrix |-> << 0, -1, 1, 1, 0, 0, 0, 0, 1 >> ],
      right    |-> [ pen |-> "cw",   transform_matrix |-> << 0, 1, 0, -1, 0, 1, 0, 0, 1 >> ] ]

OrientationNames == { "normal", "inverted", "left", "right" }

\* self._read_fails_max, set once in __init__
_read_fails_max == 100

----------------------------------------------------------------------------
(* Python helpers.                                                         *)

Range(s) == { s[i] : i \in DOMAIN s }

PyBool(b) == IF b THEN "True" ELSE "False"

\* truth value of a Python object held as "None" / "True" / "False" / "pid"
Truthy(v) == v \notin { "None", "False" }

Abs(n) == IF n < 0 THEN -n ELSE n

\* tuple(set(devices) & self.input_devices): the configured devices that are
\* present.  The order of a tuple built from a set is fixed for the process;
\* the model keeps the configured order.
verify_input_devices(devices, input_devices) ==
    SelectSeq(devices, LAMBDA d : d \in input_devices)

----------------------------------------------------------------------------
(* External calls.  Every call a handler issues is logged as a record.     *)

NoMatrix == << >>

XinputCall(func, kind, dev) ==
    [ cmd |-> "xinput", func |-> func, kind |-> kind, dev |-> dev,
      rot |-> "", matrix |-> NoMatrix ]

XrandrCall(o) ==
    [ cmd |-> "xrandr", func |-> "--rotate", kind |-> "output", dev |-> OUTPUT,
      rot |-> o, matrix |-> NoMatrix ]

SetPropCall(dev, matrix) ==
    [ cmd |-> "xinput", func |-> "set-prop",
      kind |-> "Coordinate Transformation Matrix", dev |-> dev,
      rot |-> "", matrix |-> matrix ]

PopenCall ==
    [ cmd |-> "Popen", func |-> "KEYBOARD_CMD", kind |-> "keyboard", dev |-> "",
      rot |-> "", matrix |-> NoMatrix ]

KillCall ==
    [ cmd |-> "kill", func |-> "os.system", kind |-> "keyboard", dev |-> "",
      rot |-> "", matrix |-> NoMatrix ]

QuitCall ==
    [ cmd |-> "quit", func |-> "self.quit", kind |-> "", dev |-> "",
      rot |-> "", matrix |-> NoMatrix ]

\* check_call raises CalledProcessError on a non-zero exit and Popen raises
\* OSError; os.system and self.quit report nothing.

ModeCall(c) ==
    \/ c.cmd = "xinput" /\ c.func \in { "enable", "disable" }
    \/ c.cmd \in { "Popen", "kill" }

OrientationCall(c) ==
    \/ c.cmd = "xrandr"
    \/ c.cmd = "xinput" /\ c.func = "set-prop"

----------------------------------------------------------------------------
(* Sensor Reader.                                                          *)

\* What the file system answers to one open-and-read of a sensor file:
\*   "ok"                 the file opens and holds the float val
\*   "FileNotFoundError"  open() raises FileNotFoundError
\*   "PermissionError"    open() raises another OSError
\*   "ValueError"         the file opens and float() rejects its content
Ok(v) == [ kind |-> "ok", val |-> v ]
Fault(k) == [ kind |-> k, val |-> 0 ]
FaultKinds == { "FileNotFoundError", "PermissionError", "ValueError" }

\* A mutant of read_sensor: a read that succeeds leaves the counter alone.
read_sensor_no_reset(fails, o) ==
    CASE o.kind = "ok" -> [ fails |-> fails, val |-> o.val, exc |-> "none" ]
      [] o.kind = "ValueError" -> [ fails |-> fails, val |-> 0, exc |-> "ValueError" ]
      [] o.kind = "FileNotFoundError" ->
            IF fails + 1 > _read_fails_max
            THEN [ fails |-> fails + 1, val |-> 0, exc |-> "FileNotFoundError" ]
            ELSE [ fails |-> fails + 1, val |-> 0, exc |-> "none" ]
      [] OTHER -> [ fails |-> fails, val |-> 0, exc |-> o.kind ]

\* A mutant of read_sensor: the ceiling test is >= instead of >.
read_sensor_ge(fails, o) ==
    CASE o.kind = "ok" -> [ fails |-> 0, val |-> o.val, exc |-> "none" ]
      [] o.kind = "ValueError" -> [ fails |-> 0, val |-> 0, exc |-> "ValueError" ]
      [] o.kind = "FileNotFoundError" ->
            IF fails + 1 >= _read_fails_max
            THEN [ fails |-> fails + 1, val |-> 0, exc |-> "FileNotFoundError" ]
            ELSE [ fails |-> fails + 1, val |-> 0, exc |-> "none" ]
      [] OTHER -> [ fails |-> fails, val |-> 0, exc |-> o.kind ]

\* read_sensor: the new value of self._read_fails, the value returned and the
\* exception raised.  The counter is reset as soon as open() succeeds, before
\* float() parses the content.
read_sensor(fails, o) ==
    CASE o.kind = "ok" -> [ fails |-> 0, val |-> o.val, exc |-> "none" ]
      [] o.kind = "ValueError" -> [ fails |-> 0, val |-> 0, exc |-> "ValueError" ]
      [] o.kind = "FileNotFoundError" ->
            IF fails + 1 > _read_fails_max
            THEN [ fails |-> fails + 1, val |-> 0, exc |-> "FileNotFoundError" ]
            ELSE [ fails |-> fails + 1, val |-> 0, exc |-> "none" ]
      [] OTHER -> [ fails |-> fails, val |-> 0, exc |-> o.kind ]

\* The read_sensor calls of one read_incl or read_accel, in program order,
\* up to the first one that raises.
RECURSIVE read_files(_, _)
read_files(fails, reads) ==
    IF reads = << >>
    THEN [ fails |-> fails, vals |-> << >>, exc |-> "none" ]
    ELSE LET r == read_sensor(fails, Head(reads))
         IN  IF r.exc # "none"
             THEN [ fails |-> r.fails, vals |-> << >>, exc |-> r.exc ]
             ELSE LET rest == read_files(r.fails, Tail(reads))
                  IN  [ fails |-> rest.fails,
                        vals |-> << r.val >> \o rest.vals,
                        exc |-> rest.exc ]

\* read_incl over in_incli_scale, in_incli_x_raw, in_incli_y_raw,
\* in_incli_z_raw: self._incl is assigned only when all four reads return.
read_incl(fails, incl, reads) ==
    LET r == read_files(fails, reads)
    IN  IF r.exc # "none"
        THEN [ fails |-> r.fails, incl |-> incl, exc |-> r.exc ]
        ELSE LET scale == r.vals[1] * 10
             IN  [ fails |-> r.fails,
                   incl |-> << r.vals[2] * scale, r.vals[3] * scale, r.vals[4] * scale >>,
                   exc |-> "none" ]

\* read_accel over in_accel_scale, in_accel_x_raw, in_accel_y_raw.
read_accel(fails, accel, reads) ==
    LET r == read_files(fails, reads)
    IN  IF r.exc # "none"
        THEN [ fails |-> r.fails, accel |-> accel, exc |-> r.exc ]
        ELSE LET scale == r.vals[1]
             IN  [ fails |-> r.fails,
                   accel |-> << r.vals[2] * scale, r.vals[3] * scale >>,
                   exc |-> "none" ]

----------------------------------------------------------------------------
(* Orientation Classifier.                                                 *)

\* A mutant of get_orientation: below the threshold the answer is normal.
get_orientation_rest_normal(accel, current) ==
    LET x == accel[1]
        y == accel[2]
    IN  IF Abs(x) > Abs(y)
        THEN IF x <= -GRAVITY_THRESHOLD THEN "right"
             ELSE IF x >= GRAVITY_THRESHOLD THEN "left"
             ELSE "normal"
        ELSE IF y <= -GRAVITY_THRESHOLD THEN "normal"
             ELSE IF y >= GRAVITY_THRESHOLD THEN "inverted"
             ELSE "normal"

\* A mutant of get_orientation: the dominant axis is chosen with >=.
get_orientation_ge(accel, current) ==
    LET x == accel[1]
        y == accel[2]
    IN  IF Abs(x) >= Abs(y)
        THEN IF x <= -GRAVITY_THRESHOLD THEN "right"
             ELSE IF x >= GRAVITY_THRESHOLD THEN "left"
             ELSE current
        ELSE IF y <= -GRAVITY_THRESHOLD THEN "normal"
             ELSE IF y >= GRAVITY_THRESHOLD THEN "inverted"
             ELSE current

\* A mutant of get_orientation: left and right are swapped.
get_orientation_swapped(accel, current) ==
    LET x == accel[1]
        y == accel[2]
    IN  IF Abs(x) > Abs(y)
        THEN IF x <= -GRAVITY_THRESHOLD THEN "left"
             ELSE IF x >= GRAVITY_THRESHOLD THEN "right"
             ELSE current
        ELSE IF y <= -GRAVITY_THRESHOLD THEN "normal"
             ELSE IF y >= GRAVITY_THRESHOLD THEN "inverted"
             ELSE current

get_orientation(accel, current) ==
    LET x == accel[1]
        y == accel[2]
    IN  IF Abs(x) > Abs(y)
        THEN IF x <= -GRAVITY_THRESHOLD THEN "right"
             ELSE IF x >= GRAVITY_THRESHOLD THEN "left"
             ELSE current
        ELSE IF y <= -GRAVITY_THRESHOLD THEN "normal"
             ELSE IF y >= GRAVITY_THRESHOLD THEN "inverted"
             ELSE current

----------------------------------------------------------------------------
(* Mode Resolver.                                                          *)

LidStates == { "open", "closed", "unreadable" }

\* A mutant of is_lid_open: the lid file is read.
is_lid_open_reads(lid_file) == IF lid_file = "open" THEN "True" ELSE "False"

\* The method is_lid_open only defines a nested function of the same name
\* and returns without calling it: it returns None whatever the lid file
\* holds, and never opens LID_SENSOR_PATH.
is_lid_open(lid_file) == "None"

\* The flat/docked envelope of is_laptop.
InEnvelope(incl) ==
    /\ -15 < incl[1] /\ incl[1] < 1
    /\ -5 < incl[2] /\ incl[2] < 4

\* A mutant of is_laptop: the lid test is dropped.
is_laptop_no_lid(laptop, incl, lid_file) ==
    IF laptop = "True" THEN TRUE
    ELSE IF laptop = "False" THEN FALSE
    ELSE InEnvelope(incl)

\* A mutant of is_laptop: the heuristic is consulted before the recorded
\* authoritative value.
is_laptop_heuristic_first(laptop, incl, lid_file) ==
    IF ~ Truthy(is_lid_open(lid_file)) \/ InEnvelope(incl) THEN TRUE
    ELSE laptop = "True"

is_laptop(laptop, incl, lid_file) ==
    IF laptop = "True" THEN TRUE
    ELSE IF laptop = "False" THEN FALSE
    ELSE ~ Truthy(is_lid_open(lid_file)) \/ InEnvelope(incl)

----------------------------------------------------------------------------
(* Transition Controller: the side-effecting methods.  Each takes `fail`,  *)
(* the position, among the calls it issues that can raise, of the one the  *)
(* external controller fails (0, or a position past its last call: none),  *)
(* and returns the calls issued up to and including the failing one.       *)

\* A mutant of launch_keyboard: a recorded keyboard does not stop a launch.
launch_keyboard_again(pid, fail) ==
    IF KEYBOARD_CMD = << >>
    THEN [ calls |-> << >>, pid |-> pid, exc |-> "none", n |-> 0 ]
    ELSE IF fail = 1
         THEN [ calls |-> << PopenCall >>, pid |-> pid, exc |-> "OSError", n |-> 1 ]
         ELSE [ calls |-> << PopenCall >>, pid |-> "pid", exc |-> "none", n |-> 1 ]

\* launch_keyboard: nothing without a command or with a keyboard recorded.
launch_keyboard(pid, fail) ==
    IF KEYBOARD_CMD = << >>
    THEN [ calls |-> << >>, pid |-> pid, exc |-> "none", n |-> 0 ]
    ELSE IF pid = "None"
         THEN IF fail = 1
              THEN [ calls |-> << PopenCall >>, pid |-> pid, exc |-> "OSError", n |-> 1 ]
              ELSE [ calls |-> << PopenCall >>, pid |-> "pid", exc |-> "none", n |-> 1 ]
         ELSE [ calls |-> << >>, pid |-> pid, exc |-> "none", n |-> 0 ]

\* A mutant of kill_keyboard: the recorded pid is not cleared.
kill_keyboard_keep_pid(pid) ==
    IF Truthy(pid)
    THEN [ calls |-> << KillCall >>, pid |-> pid, exc |-> "none", n |-> 0 ]
    ELSE [ calls |-> << >>, pid |-> pid, exc |-> "none", n |-> 0 ]

\* kill_keyboard: os.system does not raise.
kill_keyboard(pid) ==
    IF Truthy(pid)
    THEN [ calls |-> << KillCall >>, pid |-> "None", exc |-> "none", n |-> 0 ]
    ELSE [ calls |-> << >>, pid |-> pid, exc |-> "none", n |-> 0 ]

\* The xinput enable/disable calls of set_mode, keyboards first.
DeviceCalls(func) ==
    [ i \in 1..Len(keyboards) |-> XinputCall(func, "keyboard", keyboards[i]) ]
    \o [ i \in 1..Len(pointers) |-> XinputCall(func, "pointer", pointers[i]) ]

\* A mutant of set_mode: the pointers are left alone.
set_mode_keyboards_only(is_laptop_arg, pid, fail) ==
    LET func == IF is_laptop_arg THEN "enable" ELSE "disable"
        dev == [ i \in 1..Len(keyboards) |-> XinputCall(func, "keyboard", keyboards[i]) ]
    IN  IF fail \in 1..Len(dev)
        THEN [ calls |-> SubSeq(dev, 1, fail), pid |-> pid,
               exc |-> "CalledProcessError", n |-> Len(dev) ]
        ELSE LET kb == IF is_laptop_arg
                       THEN kill_keyboard(pid)
                       ELSE launch_keyboard(pid, fail - Len(dev))
             IN  [ calls |-> dev \o kb.calls, pid |-> kb.pid, exc |-> kb.exc,
                   n |-> Len(dev) + kb.n ]

\* set_mode(is_laptop): xinput enable/disable for every keyboard, then every
\* pointer, then launch or kill the on-screen keyboard.
set_mode(is_laptop_arg, pid, fail) ==
    LET func == IF is_laptop_arg THEN "enable" ELSE "disable"
        dev == DeviceCalls(func)
    IN  IF fail \in 1..Len(dev)
        THEN [ calls |-> SubSeq(dev, 1, fail), pid |-> pid,
               exc |-> "CalledProcessError", n |-> Len(dev) ]
        ELSE LET kb == IF is_laptop_arg
                       THEN kill_keyboard(pid)
                       ELSE launch_keyboard(pid, fail - Len(dev))
             IN  [ calls |-> dev \o kb.calls, pid |-> kb.pid, exc |-> kb.exc,
                   n |-> Len(dev) + kb.n ]

\* set_orientation: xrandr --rotate, then the coordinate transformation
\* matrix of every touchscreen.
set_orientation(o, fail) ==
    LET all == << XrandrCall(o) >>
               \o [ i \in 1..Len(touchscreens) |->
                        SetPropCall(touchscreens[i], ORIENTATIONS[o].transform_matrix) ]
    IN  IF fail \in 1..Len(all)
        THEN [ calls |-> SubSeq(all, 1, fail), exc |-> "CalledProcessError", n |-> Len(all) ]
        ELSE [ calls |-> all, exc |-> "none", n |-> Len(all) ]

----------------------------------------------------------------------------
(* The inputs of the handlers.                                             *)

\* xinput --list --name-only at start-up: everything configured is present,
\* or one pointer and one touchscreen are missing.
InputDeviceChoices ==
    { { "AT Translated Set 2 keyboard", "TPPS/2 IBM TrackPoint",
        "Synaptics TM2911-002", "ELAN Touchscreen",
        "Wacom ISDv4 EC Pen stylus", "Power Button" },
      { "AT Translated Set 2 keyboard", "TPPS/2 IBM TrackPoint",
        "ELAN Touchscreen", "Power Button" } }

\* KEYBOARD_CMD is [] in the source; a user configures a command there.
KeyboardCmdChoices == { << >>, << "onboard" >> }

\* Raw inclinometer readings (x, y, z), scale 1: inside the envelope
\* (x = -10, y = 0) and outside it (x = -20, y = 10).
InclVectors == { << -1, 0, 9 >>, << -2, 1, 9 >> }

\* Raw accelerometer readings (x, y), scale 1: at rest, left, right,
\* normal, and a tie |x| = |y| above the threshold.
AccelVectors == { << 0, 0 >>, << 2, 0 >>, << -3, 1 >>, << 1, -3 >>, << 2, 2 >> }

\* The seven reads of one tick, all answered.
OkReads(i, a) ==
    << Ok(1), Ok(i[1]), Ok(i[2]), Ok(i[3]), Ok(1), Ok(a[1]), Ok(a[2]) >>

FaultAt(reads, k, f) == [ reads EXCEPT ![k] = Fault(f) ]

\* The inclinometer (reads 1..4) or the accelerometer (reads 5..7) is away
\* for the whole tick.
Vanished(reads, from, to) ==
    [ k \in 1..7 |-> IF k \in from..to THEN Fault("FileNotFoundError") ELSE reads[k] ]

\* The answers to the seven reads of a tick: all fine; one read faulting;
\* one of the two sensors away for the whole tick.
TickReads ==
    { OkReads(i, a) : i \in InclVectors, a \in AccelVectors }
    \cup { FaultAt(OkReads(<< -2, 1, 9 >>, << 2, 2 >>), k, f) : k \in 1..7, f \in FaultKinds }
    \cup { Vanished(OkReads(<< -2, 1, 9 >>, a), 1, 4) : a \in AccelVectors }
    \cup { Vanished(OkReads(i, << 2, 2 >>), 5, 7) : i \in InclVectors }

----------------------------------------------------------------------------
(* The handlers.                                                           *)

\* The record of a handler run: its name, the argument of check_mode, and
\* the value self._laptop held when it started.
Ran(op, arg) == [ op |-> op, is_tablet |-> arg, was |-> _laptop ]

\* A mutant of check_mode: the new value is recorded only after set_mode
\* has returned.
check_mode_record_last(is_tablet) ==
    /\ ~ quit
    /\ IF PyBool(~ is_tablet) # _laptop
       THEN \E fail \in 0..set_mode(~ is_tablet, keyboard_pid, 0).n :
               LET r == set_mode(~ is_tablet, keyboard_pid, fail)
               IN  /\ _laptop' = IF r.exc = "none" THEN PyBool(~ is_tablet) ELSE _laptop
                   /\ keyboard_pid' = r.pid
                   /\ calls' = r.calls
                   /\ raised' = r.exc
                   /\ invoked' = << "set_mode" >>
       ELSE /\ calls' = << >>
            /\ raised' = "none"
            /\ invoked' = << >>
            /\ UNCHANGED << _laptop, keyboard_pid >>
    /\ last' = Ran("check_mode", is_tablet)
    /\ UNCHANGED << orientation, _accel, _incl, _read_fails >>
    /\ UNCHANGED << cfgVars, lid, quit, fnVars, uiVars >>

\* A mutant of check_mode: set_mode runs whether or not the value changed.
check_mode_unguarded(is_tablet) ==
    /\ ~ quit
    /\ \E fail \in 0..set_mode(~ is_tablet, keyboard_pid, 0).n :
          LET r == set_mode(~ is_tablet, keyboard_pid, fail)
          IN  /\ _laptop' = PyBool(~ is_tablet)
              /\ keyboard_pid' = r.pid
              /\ calls' = r.calls
              /\ raised' = r.exc
    /\ invoked' = << "set_mode" >>
    /\ last' = Ran("check_mode", is_tablet)
    /\ UNCHANGED << orientation, _accel, _incl, _read_fails >>
    /\ UNCHANGED << cfgVars, lid, quit, fnVars, uiVars >>

\* check_mode(is_tablet): the slot of the tabletmode D-Bus signal.
check_mode(is_tablet) ==
    /\ ~ quit
    /\ IF PyBool(~ is_tablet) # _laptop
       THEN \E fail \in 0..set_mode(~ is_tablet, keyboard_pid, 0).n :
               LET r == set_mode(~ is_tablet, keyboard_pid, fail)
               IN  /\ _laptop' = PyBool(~ is_tablet)
                   /\ keyboard_pid' = r.pid
                   /\ calls' = r.calls
                   /\ raised' = r.exc
                   /\ invoked' = << "set_mode" >>
       ELSE /\ calls' = << >>
            /\ raised' = "none"
            /\ invoked' = << >>
            /\ UNCHANGED << _laptop, keyboard_pid >>
    /\ last' = Ran("check_mode", is_tablet)
    /\ UNCHANGED << orientation, _accel, _incl, _read_fails >>
    /\ UNCHANGED << cfgVars, lid, quit, fnVars, uiVars >>

\* A mutant of tick_orientation: laptop mode keeps the current orientation.
tick_orientation_keep(laptop, incl, accel, current, lid_file) ==
    IF ~ is_laptop(laptop, incl, lid_file)
    THEN [ target |-> get_orientation(accel, current),
           invoked |-> << "get_orientation" >> ]
    ELSE [ target |-> current, invoked |-> << >> ]

\* A mutant of tick_orientation: the classifier runs in laptop mode too.
tick_orientation_always(laptop, incl, accel, current, lid_file) ==
    [ target |-> get_orientation(accel, current),
      invoked |-> << "get_orientation" >> ]

\* The orientation a tick decides on: normal, and what get_orientation
\* returns when the resolved mode is not laptop.
tick_orientation(laptop, incl, accel, current, lid_file) ==
    IF ~ is_laptop(laptop, incl, lid_file)
    THEN [ target |-> get_orientation(accel, current),
           invoked |-> << "get_orientation" >> ]
    ELSE [ target |-> "normal", invoked |-> << >> ]

\* The body of event(e): read_incl, read_accel, then the orientation
\* decision.  The observers' variables (fnVars) are left to the caller.
poll(reads) ==
    /\ ~ quit
    /\ LET ri == read_incl(_read_fails, _incl, SubSeq(reads, 1, 4))
           ra == read_accel(ri.fails, _accel, SubSeq(reads, 5, 7))
           d == tick_orientation(_laptop, ri.incl, ra.accel, orientation, lid)
           target == d.target
           decided == << "read_incl", "read_accel" >> \o d.invoked
       IN  IF ri.exc # "none"
           THEN /\ _read_fails' = ri.fails
                /\ raised' = ri.exc
                /\ calls' = << >>
                /\ invoked' = << "read_incl" >>
                /\ UNCHANGED << _incl, _accel, orientation >>
           ELSE IF ra.exc # "none"
           THEN /\ _incl' = ri.incl
                /\ _read_fails' = ra.fails
                /\ raised' = ra.exc
                /\ calls' = << >>
                /\ invoked' = << "read_incl", "read_accel" >>
                /\ UNCHANGED << _accel, orientation >>
           ELSE /\ _incl' = ri.incl
                /\ _accel' = ra.accel
                /\ _read_fails' = ra.fails
                /\ IF target # orientation
                   THEN \E fail \in 0..set_orientation(target, 0).n :
                           LET r == set_orientation(target, fail)
                           IN  /\ orientation' = target
                               /\ calls' = r.calls
                               /\ raised' = r.exc
                               /\ invoked' = decided \o << "set_orientation" >>
                   ELSE /\ calls' = << >>
                        /\ raised' = "none"
                        /\ invoked' = decided
                        /\ UNCHANGED orientation
    /\ last' = Ran("event", FALSE)
    /\ UNCHANGED << _laptop, keyboard_pid >>
    /\ UNCHANGED << cfgVars, lid, quit, uiVars >>

\* event(e): every event of the application, the timer's among them, runs
\* one poll.
event(reads) ==
    /\ poll(reads)
    /\ UNCHANGED fnVars

\* What stop() does with the fail-th of its raising calls failing: the mode
\* part, the orientation part and the final kill_keyboard.
StopDone(fail) ==
    LET to_laptop == ~ is_laptop(_laptop, _incl, lid)
        m == IF to_laptop
             THEN set_mode(TRUE, keyboard_pid, fail)
             ELSE [ calls |-> << >>, pid |-> keyboard_pid, exc |-> "none", n |-> 0 ]
        o == IF orientation # "normal"
             THEN set_orientation("normal", fail - m.n)
             ELSE [ calls |-> << >>, exc |-> "none", n |-> 0 ]
        k == kill_keyboard(m.pid)
    IN  [ to_laptop |-> to_laptop, m |-> m, o |-> o, k |-> k,
          called |-> IF to_laptop THEN << "set_mode" >> ELSE << >> ]

\* A mutant of stop: the orientation is restored before the mode.
stop_rotate_first ==
    \E fail \in 0..(StopDone(0).m.n + StopDone(0).o.n) :
       LET s == StopDone(fail)
       IN  /\ _laptop' = IF s.to_laptop THEN "True" ELSE _laptop
           /\ IF s.m.exc # "none"
              THEN /\ keyboard_pid' = s.m.pid
                   /\ calls' = s.m.calls
                   /\ raised' = s.m.exc
                   /\ invoked' = << "set_mode" >>
                   /\ UNCHANGED << orientation, quit >>
              ELSE IF s.o.exc # "none"
              THEN /\ keyboard_pid' = s.m.pid
                   /\ orientation' = "normal"
                   /\ calls' = s.m.calls \o s.o.calls
                   /\ raised' = s.o.exc
                   /\ invoked' = s.called \o << "set_orientation" >>
                   /\ UNCHANGED quit
              ELSE /\ keyboard_pid' = s.k.pid
                   /\ orientation' = "normal"
                   /\ calls' = s.o.calls \o s.m.calls \o s.k.calls \o << QuitCall >>
                   /\ raised' = "none"
                   /\ invoked' = (IF orientation # "normal"
                                   THEN << "set_orientation" >> ELSE << >>)
                                  \o s.called \o << "kill_keyboard", "quit" >>
                   /\ quit' = TRUE
           /\ last' = Ran("stop", FALSE)
           /\ UNCHANGED << _accel, _incl, _read_fails >>
           /\ UNCHANGED << cfgVars, lid, fnVars, uiVars >>

\* stop(): the Quit menu action and the SIGINT handler.
stop ==
    \E fail \in 0..(StopDone(0).m.n + StopDone(0).o.n) :
       LET s == StopDone(fail)
       IN  /\ _laptop' = IF s.to_laptop THEN "True" ELSE _laptop
           /\ IF s.m.exc # "none"
              THEN /\ keyboard_pid' = s.m.pid
                   /\ calls' = s.m.calls
                   /\ raised' = s.m.exc
                   /\ invoked' = << "set_mode" >>
                   /\ UNCHANGED << orientation, quit >>
              ELSE IF s.o.exc # "none"
              THEN /\ keyboard_pid' = s.m.pid
                   /\ orientation' = "normal"
                   /\ calls' = s.m.calls \o s.o.calls
                   /\ raised' = s.o.exc
                   /\ invoked' = s.called \o << "set_orientation" >>
                   /\ UNCHANGED quit
              ELSE /\ keyboard_pid' = s.k.pid
                   /\ orientation' = "normal"
                   /\ calls' = s.m.calls \o s.o.calls \o s.k.calls \o << QuitCall >>
                   /\ raised' = "none"
                   /\ invoked' = s.called
                                  \o (IF orientation # "normal"
                                      THEN << "set_orientation" >> ELSE << >>)
                                  \o << "kill_keyboard", "quit" >>
                   /\ quit' = TRUE
           /\ last' = Ran("stop", FALSE)
           /\ UNCHANGED << _accel, _incl, _read_fails >>
           /\ UNCHANGED << cfgVars, lid, fnVars, uiVars >>

\* The environment: the lid is opened or closed, or its state file becomes
\* unreadable.
LidSwitch(l) ==
    /\ l # lid
    /\ lid' = l
    /\ UNCHANGED << appVars, cfgVars, quit, logVars, invoked, fnVars, uiVars >>

\* The state after CoreApp.__init__.
InitApp ==
    /\ _laptop = "None"
    /\ orientation = "normal"
    /\ _accel = << 0, 0 >>
    /\ _incl = << 0, 0, 0 >>
    /\ _read_fails = 0
    /\ keyboard_pid = "None"
    /\ quit = FALSE
    /\ _settings = "None"
    /\ timer_interval = POLL_INTERVAL * 1000

InitConfig ==
    /\ \E input_devices \in InputDeviceChoices :
          /\ keyboards = verify_input_devices(KEYBOARDS, input_devices)
          /\ pointers = verify_input_devices(POINTERS, input_devices)
          /\ touchscreens = verify_input_devices(TOUCHSCREENS, input_devices)
    /\ KEYBOARD_CMD \in KeyboardCmdChoices

InitLog ==
    /\ last = [ op |-> "__init__", is_tablet |-> FALSE, was |-> "None" ]
    /\ calls = << >>
    /\ raised = "none"
    /\ invoked = << >>
    /\ classified = "normal"
    /\ read_ret = [ val |-> 0, exc |-> "none" ]
    /\ streak = 0

\* CoreApp never assigns poll_interval; the dialog's line edit is empty
\* until a dialog is built.
InitUi ==
    /\ poll_interval = << >>
    /\ pollEdit = << >>

Init ==
    /\ InitApp
    /\ InitConfig
    /\ InitLog
    /\ InitUi
    /\ lid \in LidStates

Next ==
    \/ \E is_tablet \in BOOLEAN : check_mode(is_tablet)
    \/ \E reads \in TickReads : event(reads)
    \/ stop
    \/ \E l \in LidStates : LidSwitch(l)

Spec == Init /\ [][Next]_vars

----------------------------------------------------------------------------
(* get_orientation on its own, over a grid of readings.                    *)

MaxAccel == 4

AccelRange == (-MaxAccel)..MaxAccel

InitClassify ==
    /\ _laptop = "None"
    /\ orientation \in OrientationNames
    /\ _accel \in AccelRange \X AccelRange
    /\ _incl = << 0, 0, 0 >>
    /\ _read_fails = 0
    /\ keyboard_pid = "None"
    /\ quit = FALSE
    /\ _settings = "None"
    /\ timer_interval = POLL_INTERVAL * 1000
    /\ keyboards = KEYBOARDS
    /\ pointers = POINTERS
    /\ touchscreens = TOUCHSCREENS
    /\ KEYBOARD_CMD = << >>
    /\ InitLog
    /\ InitUi
    /\ lid = "open"

Classify ==
    /\ classified' = get_orientation(_accel, orientation)
    /\ last' = Ran("get_orientation", FALSE)
    /\ UNCHANGED << appVars, cfgVars, lid, quit, calls, raised, invoked, read_ret, streak, uiVars >>

NextClassify == Classify

SpecClassify == InitClassify /\ [][NextClassify]_vars

----------------------------------------------------------------------------
(* read_sensor on its own: one file read at a time, any answer each time.  *)

\* Reads are answered while the counter is at most this.
MaxReadFails == 102

SensorAnswers == { Ok(v) : v \in { 0, 3 } } \cup { Fault(k) : k \in FaultKinds }

\* streak counts the file-not-found answers since the last answered read;
\* it is -1 from a fault of another class until the next answered read.
ReadSensor(o) ==
    /\ _read_fails <= MaxReadFails
    /\ LET r == read_sensor(_read_fails, o)
       IN  /\ _read_fails' = r.fails
           /\ read_ret' = [ val |-> r.val, exc |-> r.exc ]
    /\ streak' = CASE o.kind = "ok" -> 0
                   [] o.kind = "FileNotFoundError" ->
                         IF streak < 0 THEN streak ELSE streak + 1
                   [] OTHER -> -1
    /\ last' = Ran("read_sensor", FALSE)
    /\ UNCHANGED << _laptop, orientation, _accel, _incl, keyboard_pid >>
    /\ UNCHANGED << cfgVars, lid, quit, calls, raised, invoked, classified, uiVars >>

InitSensor ==
    /\ InitApp
    /\ InitLog
    /\ InitUi
    /\ keyboards = KEYBOARDS
    /\ pointers = POINTERS
    /\ touchscreens = TOUCHSCREENS
    /\ KEYBOARD_CMD = << >>
    /\ lid = "open"

NextSensor == \E o \in SensorAnswers : ReadSensor(o)

SpecSensor == InitSensor /\ [][NextSensor]_vars

----------------------------------------------------------------------------
(* Ticks with the accelerometer always answering and the inclinometer      *)
(* answering, partly missing or wholly missing (its directory is gone).    *)

\* Ticks are taken while the inclinometer's streak is at most this.
MaxInclFaults == 104

\* The consecutive file-not-found answers of the inclinometer's files, the
\* last one included, after the answers `reads` (in program order).
RECURSIVE InclStreak(_, _)
InclStreak(n, reads) ==
    IF reads = << >> THEN n
    ELSE InclStreak(IF Head(reads).kind = "FileNotFoundError" THEN n + 1 ELSE 0,
                    Tail(reads))

InclFaultReads ==
    { OkReads(i, a) : i \in InclVectors, a \in AccelVectors }
    \cup { Vanished(OkReads(<< -2, 1, 9 >>, a), 1, 4) : a \in AccelVectors }
    \cup { FaultAt(OkReads(<< -2, 1, 9 >>, << 2, 0 >>), k, "FileNotFoundError") : k \in 1..4 }

\* One tick; streak follows the inclinometer's files alone.
InclFaultTick(reads) ==
    /\ streak <= MaxInclFaults
    /\ poll(reads)
    /\ streak' = InclStreak(streak, SubSeq(reads, 1, 4))
    /\ UNCHANGED << classified, read_ret >>

InitFaults ==
    /\ InitApp
    /\ InitLog
    /\ InitUi
    /\ keyboards = KEYBOARDS
    /\ pointers = POINTERS
    /\ touchscreens = TOUCHSCREENS
    /\ KEYBOARD_CMD = << >>
    /\ lid = "open"

NextFaults == \E reads \in InclFaultReads : InclFaultTick(reads)

SpecFaults == InitFaults /\ [][NextFaults]_vars

----------------------------------------------------------------------------
(* Ticks and mode events with both sensors missing for long enough to      *)
(* reach the fault ceiling.                                                *)

\* The answers to the seven reads of a tick: all fine; both sensors away;
\* the accelerometer away; one read failing otherwise.
CeilingReads ==
    { OkReads(<< -2, 1, 9 >>, a) : a \in AccelVectors }
    \cup { Vanished(OkReads(<< -2, 1, 9 >>, << 2, 0 >>), 1, 7),
           Vanished(OkReads(<< -2, 1, 9 >>, << 2, 0 >>), 5, 7) }
    \cup { FaultAt(OkReads(<< -2, 1, 9 >>, << 2, 0 >>), k, f) :
              k \in { 2, 6 }, f \in { "PermissionError", "ValueError" } }

\* One tick, taken while the counter is at most MaxReadFails.
CeilingTick(reads) ==
    /\ _read_fails <= MaxReadFails
    /\ event(reads)

NextCeiling ==
    \/ \E is_tablet \in BOOLEAN : check_mode(is_tablet)
    \/ \E reads \in CeilingReads : CeilingTick(reads)

SpecCeiling == InitFaults /\ [][NextCeiling]_vars

----------------------------------------------------------------------------
(* The settings dialog (settings.py) and toggle_settings.                  *)

DigitChars == << "0", "1", "2", "3", "4", "5", "6", "7", "8", "9" >>

IsDigit(c) == c \in Range(DigitChars)

DigitValue(c) == (CHOOSE i \in DOMAIN DigitChars : DigitChars[i] = c) - 1

\* str.strip() of blanks at both ends.
RECURSIVE LStrip(_)
LStrip(t) == IF t # << >> /\ Head(t) = " " THEN LStrip(Tail(t)) ELSE t

RECURSIVE RStrip(_)
RStrip(t) ==
    IF t # << >> /\ t[Len(t)] = " " THEN RStrip(SubSeq(t, 1, Len(t) - 1)) ELSE t

\* The digits of an integer literal: digits, with single underscores
\* allowed between two digits.
ValidDigits(d) ==
    /\ d # << >>
    /\ \A i \in DOMAIN d :
          \/ IsDigit(d[i])
          \/ /\ d[i] = "_"
             /\ i > 1 /\ i < Len(d)
             /\ IsDigit(d[i - 1]) /\ IsDigit(d[i + 1])

RECURSIVE DigitsValue(_, _)
DigitsValue(d, acc) ==
    IF d = << >> THEN acc
    ELSE IF Head(d) = "_" THEN DigitsValue(Tail(d), acc)
    ELSE DigitsValue(Tail(d), acc * 10 + DigitValue(Head(d)))

\* int(text): the value, or ValueError.
PyInt(text) ==
    LET t == RStrip(LStrip(text))
        signed == t # << >> /\ Head(t) \in { "+", "-" }
        d == IF signed THEN Tail(t) ELSE t
    IN  IF ValidDigits(d)
        THEN [ val |-> IF signed /\ Head(t) = "-"
                       THEN - DigitsValue(d, 0)
                       ELSE DigitsValue(d, 0),
               exc |-> "none" ]
        ELSE [ val |-> 0, exc |-> "ValueError" ]

\* f"{n}" of an integer.
RECURSIVE NatStr(_)
NatStr(n) ==
    IF n < 10 THEN << DigitChars[n + 1] >>
    ELSE NatStr(n \div 10) \o << DigitChars[(n % 10) + 1] >>

PyStr(n) == IF n < 0 THEN << "-" >> \o NatStr(-n) ELSE NatStr(n)

\* The user types into the poll-interval line edit of the open dialog.
MaxTextLen == 2

PollChars == { "0", "1", "-", " ", "x" }

PollTexts == UNION { [ 1..n -> PollChars ] : n \in 0..MaxTextLen }

EditPoll(text) ==
    /\ _settings = "open"
    /\ text # pollEdit
    /\ pollEdit' = text
    /\ last' = Ran("pollEdit", FALSE)
    /\ raised' = "none"
    /\ UNCHANGED << appVars, cfgVars, lid, quit, calls, invoked, fnVars, _settings, poll_interval >>

\* A mutant of buttonPress: zero is accepted.
buttonPressZero ==
    /\ _settings = "open"
    /\ LET r == PyInt(pollEdit)
       IN  poll_interval' = IF r.exc = "none" /\ r.val >= 0
                            THEN << r.val >>
                            ELSE poll_interval
    /\ _settings' = "None"
    /\ last' = Ran("buttonPress", FALSE)
    /\ raised' = "none"
    /\ UNCHANGED << appVars, cfgVars, lid, quit, calls, invoked, fnVars, pollEdit >>

\* OrientSettings.buttonPress: parse the line edit, store a positive value,
\* swallow ValueError, then parent.toggle_settings() closes the dialog.
buttonPress ==
    /\ _settings = "open"
    /\ LET r == PyInt(pollEdit)
       IN  poll_interval' = IF r.exc = "none" /\ r.val > 0
                            THEN << r.val >>
                            ELSE poll_interval
    /\ _settings' = "None"
    /\ last' = Ran("buttonPress", FALSE)
    /\ raised' = "none"
    /\ UNCHANGED << appVars, cfgVars, lid, quit, calls, invoked, fnVars, pollEdit >>

\* toggle_settings: close the open dialog, or build one.  OrientSettings'
\* constructor reads parent.poll_interval to fill the line edit and raises
\* AttributeError when the parent has no such attribute; self._settings is
\* then left as it was.
toggle_settings ==
    /\ IF _settings # "None"
       THEN /\ _settings' = "None"
            /\ raised' = "none"
            /\ UNCHANGED pollEdit
       ELSE IF poll_interval = << >>
            THEN /\ raised' = "AttributeError"
                 /\ UNCHANGED << _settings, pollEdit >>
            ELSE /\ _settings' = "open"
                 /\ pollEdit' = PyStr(poll_interval[1])
                 /\ raised' = "none"
    /\ last' = Ran("toggle_settings", FALSE)
    /\ UNCHANGED << appVars, cfgVars, lid, quit, calls, invoked, fnVars, poll_interval >>

\* The dialog takes any parent: one without poll_interval, as CoreApp is,
\* or one holding an interval.
MaxInterval == 2

InitSettings ==
    /\ InitApp
    /\ InitLog
    /\ keyboards = KEYBOARDS
    /\ pointers = POINTERS
    /\ touchscreens = TOUCHSCREENS
    /\ KEYBOARD_CMD = << >>
    /\ lid = "open"
    /\ poll_interval \in { << >> } \cup { << n >> : n \in 1..MaxInterval }
    /\ pollEdit = << >>

NextSettings ==
    \/ toggle_settings
    \/ \E text \in PollTexts : EditPoll(text)
    \/ buttonPress

SpecSettings == InitSettings /\ [][NextSettings]_vars

----------------------------------------------------------------------------
(* Properties.                                                             *)

Times(seq, c) == Cardinality({ i \in DOMAIN seq : seq[i] = c })

\* A handler ran in this step (the lid is switched by the environment).
HandlerStep == lid' = lid

\* The mode the program resolves in the current state / the next state.
ModeNow == IF is_laptop(_laptop, _incl, lid) THEN "Laptop" ELSE "Tablet"
ModeNext == IF is_laptop(_laptop', _incl', lid') THEN "Laptop" ELSE "Tablet"

\* Every keyboard and pointer of the device set got exactly one xinput
\* `func` call, and no call of the other kind.
DevicesSwitchedOnce(seq, func) ==
    /\ \A i \in DOMAIN keyboards :
          Times(seq, XinputCall(func, "keyboard", keyboards[i])) = 1
    /\ \A i \in DOMAIN pointers :
          Times(seq, XinputCall(func, "pointer", pointers[i])) = 1
    /\ Cardinality({ i \in DOMAIN seq : seq[i].func \in { "enable", "disable" } })
          = Len(keyboards) + Len(pointers)

\* xrandr ran once, for orientation o, and every touchscreen got o's matrix
\* once, and nothing else rotated.
RotatedOnce(seq, o) ==
    /\ Times(seq, XrandrCall(o)) = 1
    /\ \A i \in DOMAIN touchscreens :
          Times(seq, SetPropCall(touchscreens[i], ORIENTATIONS[o].transform_matrix)) = 1
    /\ Cardinality({ i \in DOMAIN seq : OrientationCall(seq[i]) }) = 1 + Len(touchscreens)

NoModeCalls(seq) == \A i \in DOMAIN seq : ~ ModeCall(seq[i])
NoOrientationCalls(seq) == \A i \in DOMAIN seq : ~ OrientationCall(seq[i])

\* C1 as stated: in every handler run whose external calls all succeed, the
\* mode side effects are issued exactly once when the current Mode changes
\* and not at all when it does not, and the orientation side effects are
\* issued exactly once when the current Orientation changes and not at all
\* when it does not.
C1_Original ==
    [][ (HandlerStep /\ raised' = "none") =>
           /\ ModeNext = ModeNow => NoModeCalls(calls')
           /\ ModeNext # ModeNow =>
                 DevicesSwitchedOnce(calls', IF ModeNext = "Laptop" THEN "enable" ELSE "disable")
           /\ orientation' = orientation => NoOrientationCalls(calls')
           /\ orientation' # orientation => RotatedOnce(calls', orientation') ]_vars

\* C1 amended: the mode side effects follow the recorded value self._laptop,
\* whose initial None differs from both True and False.  A handler issues
\* no enable/disable/launch call when self._laptop keeps its value, and one
\* enable/disable call per keyboard and pointer when it changes (the series
\* is cut short only by a failing call); a launch is issued at most once,
\* on entering Tablet with no keyboard recorded, and a kill at most once,
\* for a recorded keyboard.  The orientation side effects are issued once
\* when self.orientation changes and not at all when it does not.
C1_Amended ==
    [][ HandlerStep =>
           /\ _laptop' = _laptop =>
                 \A i \in DOMAIN calls' :
                    ~ (calls'[i].func \in { "enable", "disable" } \/ calls'[i] = PopenCall)
           /\ (_laptop' # _laptop /\ raised' = "none") =>
                 DevicesSwitchedOnce(calls', IF _laptop' = "True" THEN "enable" ELSE "disable")
           /\ Times(calls', PopenCall) <= 1
           /\ Times(calls', PopenCall) = 1 =>
                 keyboard_pid = "None" /\ _laptop' = "False" /\ _laptop # "False"
           /\ Times(calls', KillCall) <= 1
           /\ Times(calls', KillCall) = 1 => keyboard_pid = "pid" /\ keyboard_pid' = "None"
           /\ orientation' = orientation => NoOrientationCalls(calls')
           /\ (orientation' # orientation /\ raised' = "none") =>
                 RotatedOnce(calls', orientation') ]_vars

\* The first authoritative signal was `not tablet`: the recorded value went
\* from None to True, the Mode stayed Laptop, and the enable calls went out.
C1_Witness ==
    /\ last = [ op |-> "check_mode", is_tablet |-> FALSE, was |-> "None" ]
    /\ _laptop = "True"
    /\ raised = "none"
    /\ Len(calls) = 3
    /\ DevicesSwitchedOnce(calls, "enable")

\* C2: a stop() whose external calls all succeed ends with Mode Laptop,
\* Orientation normal and no keyboard process recorded; from a state that
\* is already so it issues no external call (it only requests quit).
C2_Shutdown ==
    [][ (HandlerStep /\ last'.op = "stop" /\ raised' = "none") =>
           /\ ModeNext = "Laptop"
           /\ orientation' = "normal"
           /\ keyboard_pid' = "None"
           /\ quit'
           /\ (ModeNow = "Laptop" /\ orientation = "normal" /\ keyboard_pid = "None") =>
                 calls' = << QuitCall >> ]_vars

\* stop() ran from Tablet with the screen rotated and a keyboard running.
C2_Witness ==
    /\ last.op = "stop"
    /\ last.was = "False"
    /\ raised = "none"
    /\ quit
    /\ Times(calls, KillCall) = 1
    /\ Times(calls, XrandrCall("normal")) = 1
    /\ ModeNow = "Laptop" /\ orientation = "normal" /\ keyboard_pid = "None"

C4_Sticky ==
    [][ (_laptop = "False" /\ (~ HandlerStep \/ last'.op = "event")) =>
           \A l \in LidStates : ~ is_laptop(_laptop', _incl', l) ]_vars

\* A tick ran in Tablet mode with the lid closed and the inclination inside
\* the flat envelope, and the Mode is still Tablet.
C4_Witness ==
    /\ last.op = "event"
    /\ last.was = "False"
    /\ raised = "none"
    /\ lid = "closed"
    /\ InEnvelope(_incl)
    /\ ModeNow = "Tablet"

\* C5: with no authoritative signal received, the resolved Mode is Laptop
\* when the lid is closed or unreadable, whatever the inclination, and it
\* is Laptop when the inclination is inside -15 < x < 1, -5 < y < 4,
\* whatever the lid state.
C5_Heuristic ==
    _laptop = "None" =>
       /\ lid \in { "closed", "unreadable" } => ModeNow = "Laptop"
       /\ (-15 < _incl[1] /\ _incl[1] < 1 /\ -5 < _incl[2] /\ _incl[2] < 4) =>
             \A l \in LidStates : is_laptop(_laptop, _incl, l)

\* No signal yet, the lid closed, and a tick read an inclination outside
\* the envelope.
C5_Witness ==
    /\ _laptop = "None"
    /\ last.op = "event"
    /\ raised = "none"
    /\ lid = "closed"
    /\ ~ InEnvelope(_incl)
    /\ ModeNow = "Laptop"

\* C6: get_orientation with threshold 2: a dominant x at or below -2 gives
\* right, at or above 2 gives left; a dominant y at or below -2 gives
\* normal, at or above 2 gives inverted; with both axes strictly inside the
\* threshold the current orientation is returned.
C6_Classifier ==
    last.op = "get_orientation" =>
       LET x == _accel[1]
           y == _accel[2]
       IN  /\ (Abs(x) > Abs(y) /\ x <= -2) => classified = "right"
           /\ (Abs(x) > Abs(y) /\ x >= 2) => classified = "left"
           /\ (Abs(y) > Abs(x) /\ y <= -2) => classified = "normal"
           /\ (Abs(y) > Abs(x) /\ y >= 2) => classified = "inverted"
           /\ (Abs(x) < 2 /\ Abs(y) < 2) => classified = orientation

\* A dominant x below the negative threshold was classified right from
\* another orientation.
C6_Witness ==
    /\ last.op = "get_orientation"
    /\ _accel = << -3, 2 >>
    /\ orientation = "inverted"
    /\ classified = "right"

\* C10 as stated: on a tie |x| = |y| the x axis decides: x <= -2 gives
\* right and x >= 2 gives left.
C10_Original ==
    last.op = "get_orientation" =>
       LET x == _accel[1]
           y == _accel[2]
       IN  /\ (Abs(x) = Abs(y) /\ x <= -2) => classified = "right"
           /\ (Abs(x) = Abs(y) /\ x >= 2) => classified = "left"

\* C10 amended: on a tie |x| = |y| the y axis decides (the x branch needs
\* |x| > |y|): y <= -2 gives normal and y >= 2 gives inverted, whatever the
\* sign of x and the current orientation.
C10_Amended ==
    last.op = "get_orientation" =>
       LET x == _accel[1]
           y == _accel[2]
       IN  /\ (Abs(x) = Abs(y) /\ y <= -2) => classified = "normal"
           /\ (Abs(x) = Abs(y) /\ y >= 2) => classified = "inverted"

\* A tie with x at the negative threshold was classified by its y.
C10_Witness ==
    /\ last.op = "get_orientation"
    /\ _accel = << -2, 2 >>
    /\ orientation = "left"
    /\ classified = "inverted"

\* C7: a check_mode(True) handled in Laptop mode, its external calls all
\* succeeding, makes the Mode Tablet, issues one xinput disable per keyboard
\* and pointer, and leaves an on-screen keyboard running when a command is
\* configured (launching it unless one is recorded; nothing without a
\* command); check_mode(False) in Tablet mode makes the Mode Laptop, issues
\* one xinput enable per keyboard and pointer and kills a recorded keyboard.
C7_ModeEvent ==
    [][ (HandlerStep /\ last'.op = "check_mode" /\ raised' = "none") =>
           /\ (last'.is_tablet /\ ModeNow = "Laptop") =>
                 /\ ModeNext = "Tablet"
                 /\ DevicesSwitchedOnce(calls', "disable")
                 /\ Times(calls', KillCall) = 0
                 /\ KEYBOARD_CMD = << >> =>
                       Times(calls', PopenCall) = 0 /\ keyboard_pid' = keyboard_pid
                 /\ KEYBOARD_CMD # << >> =>
                       /\ keyboard_pid' = "pid"
                       /\ Times(calls', PopenCall) = (IF keyboard_pid = "None" THEN 1 ELSE 0)
           /\ (~ last'.is_tablet /\ ModeNow = "Tablet") =>
                 /\ ModeNext = "Laptop"
                 /\ DevicesSwitchedOnce(calls', "enable")
                 /\ Times(calls', PopenCall) = 0
                 /\ keyboard_pid' = "None"
                 /\ Times(calls', KillCall) = (IF keyboard_pid = "pid" THEN 1 ELSE 0) ]_vars

\* The first signal said tablet: both pointers and the keyboard disabled,
\* the on-screen keyboard launched.
C7_Witness ==
    /\ last = [ op |-> "check_mode", is_tablet |-> TRUE, was |-> "None" ]
    /\ raised = "none"
    /\ ModeNow = "Tablet"
    /\ Len(pointers) = 2
    /\ DevicesSwitchedOnce(calls, "disable")
    /\ Times(calls, PopenCall) = 1
    /\ keyboard_pid = "pid"

\* C8: a stop() handled in Tablet mode with a rotated screen issues every
\* mode call (xinput enable, kill) before every orientation call (xrandr,
\* set-prop), and requests quit last, after all of them.
C8_ShutdownOrder ==
    [][ (HandlerStep /\ last'.op = "stop" /\ ModeNow = "Tablet" /\ orientation # "normal") =>
           /\ \A i, j \in DOMAIN calls' :
                 (ModeCall(calls'[i]) /\ OrientationCall(calls'[j])) => i < j
           /\ \A i \in DOMAIN calls' : calls'[i] = QuitCall => i = Len(calls')
           /\ raised' = "none" =>
                 /\ DevicesSwitchedOnce(calls', "enable")
                 /\ Times(calls', KillCall) = (IF keyboard_pid = "pid" THEN 1 ELSE 0)
                 /\ RotatedOnce(calls', "normal")
                 /\ calls'[Len(calls')] = QuitCall ]_vars

\* stop() ran in Tablet mode with a rotated screen and a keyboard running:
\* enable calls and the kill, then the rotation, then quit.
C8_Witness ==
    /\ last.op = "stop"
    /\ last.was = "False"
    /\ raised = "none"
    /\ Len(calls) = 8
    /\ calls[4] = KillCall
    /\ calls[5] = XrandrCall("normal")
    /\ calls[8] = QuitCall

\* C9: buttonPress with a text that int() rejects, or that denotes zero or
\* a negative number, leaves poll_interval as it was and raises nothing;
\* with a text that denotes a positive integer it stores exactly that
\* integer.
C9_PollInterval ==
    [][ last'.op = "buttonPress" =>
           LET r == PyInt(pollEdit)
           IN  /\ raised' = "none"
               /\ (r.exc # "none" \/ r.val <= 0) => poll_interval' = poll_interval
               /\ (r.exc = "none" /\ r.val > 0) => poll_interval' = << r.val >>
               /\ pollEdit = << "1", "0" >> => poll_interval' = << 10 >>
               /\ pollEdit = << " ", "1" >> => poll_interval' = << 1 >>
               /\ pollEdit \in { << >>, << "x" >>, << "1", "x" >>, << "-" >>, << "1", "-" >>,
                                << "0" >>, << "0", "0" >>, << "-", "1" >>, << "-", "0" >>,
                                << "1", " ">> \o << "1" >> } =>
                     poll_interval' = poll_interval ]_vars

\* The button was pressed on the text 10 and the interval is 10.
C9_Witness ==
    /\ last.op = "buttonPress"
    /\ pollEdit = << "1", "0" >>
    /\ poll_interval = << 10 >>
    /\ raised = "none"

\* C11: a tick that resolves the Mode to Laptop does not call
\* get_orientation, and a tick that completes with Mode Laptop leaves the
\* orientation normal: from another orientation it issues the xrandr call
\* and the touchscreen matrices for normal once, from normal nothing.
C11_LaptopNormal ==
    [][ (HandlerStep /\ last'.op = "event" /\ ModeNext = "Laptop") =>
           /\ \A i \in DOMAIN invoked' : invoked'[i] # "get_orientation"
           /\ raised' = "none" =>
                 /\ orientation' = "normal"
                 /\ orientation # "normal" => RotatedOnce(calls', "normal")
                 /\ orientation = "normal" => calls' = << >> ]_vars

\* A tick in Laptop mode reset a rotated screen without classifying.
C11_Witness ==
    /\ last.op = "event"
    /\ last.was = "True"
    /\ raised = "none"
    /\ invoked = << "read_incl", "read_accel", "set_orientation" >>
    /\ _accel = << 2, 0 >>
    /\ orientation = "normal"
    /\ RotatedOnce(calls, "normal")

\* Some call of seq sets the stylus mode pen on the device dev.
StylusSet(seq, dev, pen) ==
    \E i \in DOMAIN seq : seq[i].dev = dev /\ seq[i].rot = pen

\* C12 as stated: a handler that changes the orientation and whose calls
\* succeed rotates the display once to the new orientation and sets, on
\* every touchscreen, the new orientation's transformation matrix and its
\* stylus mode (the pen entry of ORIENTATIONS).
C12_Stylus ==
    [][ (HandlerStep /\ orientation' # orientation /\ raised' = "none") =>
           /\ Times(calls', XrandrCall(orientation')) = 1
           /\ \A i \in DOMAIN touchscreens :
                 /\ Times(calls', SetPropCall(touchscreens[i],
                                  ORIENTATIONS[orientation'].transform_matrix)) = 1
                 /\ StylusSet(calls', touchscreens[i], ORIENTATIONS[orientation'].pen) ]_vars

C14_Original ==
    (last.op = "event" /\ streak > _read_fails_max) => raised = "FileNotFoundError"

\* C14 amended: the counter is shared by all reads.  While the
\* accelerometer answers, every tick ends with the counter at zero and
\* raises nothing, however long the inclinometer has been missing; a tick
\* in which the inclinometer is wholly missing leaves the inclination at
\* (0, 0, 0).
C14_Amended ==
    last.op = "event" =>
       /\ raised = "none"
       /\ _read_fails = 0
       /\ streak >= 4 => _incl = << 0, 0, 0 >>

\* The inclinometer has been missing for more than 100 reads in a row and
\* the tick returned.
C14_Witness ==
    /\ last.op = "event"
    /\ streak > _read_fails_max
    /\ raised = "none"
    /\ _read_fails = 0
    /\ _accel = << 2, 2 >>

C16_ModeEventFrame ==
    [][ HandlerStep =>
           /\ last'.op = "check_mode" =>
                 /\ UNCHANGED << orientation, _accel, _incl, _read_fails >>
                 /\ \A i \in DOMAIN invoked' : invoked'[i] \notin { "read_incl", "read_accel" }
                 /\ NoOrientationCalls(calls')
           /\ (last'.op = "check_mode" /\ ~ last'.is_tablet /\ _laptop = "False"
                  /\ orientation # "normal") =>
                 _laptop' = "True" /\ orientation' # "normal"
           /\ (last.op = "check_mode" /\ ~ last.is_tablet /\ last.was = "False"
                  /\ orientation # "normal" /\ last'.op = "event"
                  /\ raised' \notin FaultKinds) =>
                 /\ orientation' = "normal"
                 /\ raised' = "none" => RotatedOnce(calls', "normal") ]_vars

\* check_mode(False) ran in Tablet mode with the screen rotated left: the
\* Mode is Laptop, the keyboard is gone and the screen is still rotated.
C16_Witness ==
    /\ last = [ op |-> "check_mode", is_tablet |-> FALSE, was |-> "False" ]
    /\ raised = "none"
    /\ _laptop = "True"
    /\ orientation = "left"
    /\ invoked = << "set_mode" >>
    /\ Times(calls, KillCall) = 1

\* The last handler stopped at an external call that failed.
CallFailed(exc) == exc \in { "CalledProcessError", "OSError" }

\* C17: when an external call fails, the handler propagates the exception
\* and the recorded value already is the target: self._laptop after a
\* failed mode call (check_mode, stop), self.orientation after a failed
\* orientation call (tick, stop).  A following check_mode with the same
\* argument, or a following tick that decides on the same orientation,
\* issues no call.
C17_NoRollback ==
    [][ HandlerStep =>
           /\ (CallFailed(raised') /\ last'.op = "check_mode") =>
                 /\ _laptop' = PyBool(~ last'.is_tablet)
                 /\ _laptop' # _laptop
           /\ (CallFailed(raised') /\ last'.op = "event") =>
                 /\ orientation' # orientation
                 /\ orientation' = tick_orientation(_laptop', _incl', _accel',
                                                    orientation, lid').target
                 /\ OrientationCall(calls'[Len(calls')])
           /\ (CallFailed(raised') /\ last'.op = "stop") =>
                 /\ ~ quit'
                 /\ ModeCall(calls'[Len(calls')]) => _laptop' = "True"
                 /\ OrientationCall(calls'[Len(calls')]) => orientation' = "normal"
           /\ (CallFailed(raised) /\ last.op = "check_mode" /\ last'.op = "check_mode"
                  /\ last'.is_tablet = last.is_tablet) =>
                 calls' = << >> /\ raised' = "none"
           /\ (CallFailed(raised) /\ last.op = "event" /\ last'.op = "event"
                  /\ raised' \notin FaultKinds
                  /\ tick_orientation(_laptop', _incl', _accel', orientation, lid').target
                        = orientation) =>
                 calls' = << >> /\ raised' = "none" ]_vars

\* The first signal said tablet and the xinput disable of the second
\* device failed: Tablet is recorded, the second pointer is still enabled
\* and no keyboard was launched.
C17_Witness ==
    /\ last = [ op |-> "check_mode", is_tablet |-> TRUE, was |-> "None" ]
    /\ raised = "CalledProcessError"
    /\ _laptop = "False"
    /\ Len(pointers) = 2
    /\ Len(calls) = 2
    /\ keyboard_pid = "None"

C19_Original ==
    /\ keyboard_pid = "pid" => _laptop = "False"
    /\ quit => keyboard_pid = "None"
    /\ KEYBOARD_CMD = << >> => keyboard_pid = "None"

\* C19 amended: a launch happens at most once per handler, only in a
\* check_mode that records Tablet and only while no keyboard is recorded;
\* a completed switch to Laptop and a completed stop leave none recorded;
\* without a keyboard command none is ever recorded.  A keyboard is
\* recorded while the recorded Mode is Tablet, and also while it is Laptop
\* after a switch to Laptop (check_mode or stop) that a failing xinput
\* enable cut short before kill_keyboard, until a later handler kills it.
C19_Amended ==
    [][ HandlerStep =>
           /\ KEYBOARD_CMD = << >> => keyboard_pid' = "None"
           /\ Times(calls', PopenCall) <= 1
           /\ Times(calls', PopenCall) = 1 => keyboard_pid = "None"
           /\ (keyboard_pid = "None" /\ keyboard_pid' = "pid") =>
                 /\ last'.op = "check_mode"
                 /\ _laptop' = "False"
                 /\ Times(calls', PopenCall) = 1
           /\ keyboard_pid' = "pid" =>
                 \/ _laptop' = "False"
                 \/ /\ _laptop' = "True"
                    /\ \/ CallFailed(raised') /\ last'.op \in { "check_mode", "stop" }
                       \/ _laptop = "True" /\ keyboard_pid = "pid"
           /\ (raised' = "none" /\ last'.op = "check_mode"
                  /\ _laptop' = "True" /\ _laptop # "True") =>
                 keyboard_pid' = "None"
           /\ (raised' = "none" /\ last'.op = "stop") => keyboard_pid' = "None" ]_vars

\* check_mode(False) ran in Tablet mode and an xinput enable failed: Laptop
\* is recorded and the keyboard process is still recorded.
C19_Witness ==
    /\ last = [ op |-> "check_mode", is_tablet |-> FALSE, was |-> "False" ]
    /\ raised = "CalledProcessError"
    /\ _laptop = "True"
    /\ keyboard_pid = "pid"

\* A tick raised out of a sensor read: nothing was decided.
TickRaisedInRead ==
    /\ orientation' = orientation
    /\ _laptop' = _laptop
    /\ ModeNext = ModeNow
    /\ keyboard_pid' = keyboard_pid
    /\ calls' = << >>
    /\ \A i \in DOMAIN invoked' : invoked'[i] \in { "read_incl", "read_accel" }

\* The reads of the tick returned and the three accelerometer reads were
\* tolerated file-not-found faults (any answered read resets the counter).
AccelNeutralized == raised' \notin FaultKinds /\ _read_fails' >= 3

\* C20 as stated: a tick in which a sensor read raises changes neither the
\* orientation nor the Mode and issues no call; a tick in which every
\* accelerometer read is a tolerated fault leaves the orientation as it was.
C20_Original ==
    [][ (HandlerStep /\ last'.op = "event") =>
           /\ raised' \in FaultKinds => TickRaisedInRead
           /\ AccelNeutralized => orientation' = orientation ]_vars

\* C20 amended: a tick in which a sensor read raises changes neither the
\* orientation nor the Mode and issues no call; a tick in which every
\* accelerometer read is a tolerated fault records the acceleration (0, 0)
\* and leaves the orientation as it was when the Mode is Tablet; when the
\* Mode is Laptop it leaves the orientation normal, resetting a rotated
\* screen as any tick in Laptop mode does.
C20_Amended ==
    [][ (HandlerStep /\ last'.op = "event") =>
           /\ raised' \in FaultKinds => TickRaisedInRead
           /\ AccelNeutralized =>
                 /\ _accel' = << 0, 0 >>
                 /\ ModeNext = "Tablet" => orientation' = orientation /\ calls' = << >>
                 /\ ModeNext = "Laptop" => orientation' = "normal" ]_vars

\* The 101st file-not-found fault in a row was raised out of a tick in
\* Tablet mode with the screen rotated left.
C20_Witness ==
    /\ last.op = "event"
    /\ raised = "FileNotFoundError"
    /\ _read_fails = _read_fails_max + 1
    /\ _laptop = "False"
    /\ orientation = "left"
    /\ calls = << >>
    /\ invoked = << "read_incl" >>

====
